---- MODULE Spec2Model ----
(***************************************************************************)
(* Model of Source/TechAlpha/scripts/build-designspace.py: the builders    *)
(* that derive axes, sources, instances and axis mappings of the Roboto    *)
(* Flex avar2 designspaces from the .ufo file names of two folders and     *)
(* from font measurements, and the script that builds and saves them.      *)
(*                                                                         *)
(* A .ufo path "<folder>/<prefix>_<TAG><value>.ufo" is the record of its   *)
(* four-letter tag and its integer value; an extremum font also carries    *)
(* its unitsPerEm and the measurements FontMeasurements takes from it.     *)
(* Python dicts that are created once and then written to (the locations)  *)
(* live in a heap of objects and are held by reference.                    *)
(***************************************************************************)
EXTENDS Integers, Sequences, FiniteSets, TLC

VARIABLES
    folderSources,       \* listing of sources/*.ufo, in glob order
    folderExtrema,       \* listing of sources/extrema/*.ufo, in glob order
    defaultFont,         \* the default UFO: unitsPerEm and measurements
    cur,                 \* position in the script: index of the builder
    pc,                  \* "construct", "build", "save", "done", "aborted"
    step,                \* inside build(): 0 before the document exists
    sourcesParametric,   \* self.sourcesParametric
    sourcesExtrema,      \* self.sourcesExtrema
    unitsPerEm,          \* self.unitsPerEm
    measurementsDefault, \* self.measurementsDefault.values
    designspace,         \* self.designspace
    heap,                \* the location dicts, by reference
    written,             \* designspace paths written by save()
    error                \* the uncaught exception that ended the run

vars == <<folderSources, folderExtrema, defaultFont, cur, pc, step,
          sourcesParametric, sourcesExtrema, unitsPerEm, measurementsDefault,
          designspace, heap, written, error>>

----------------------------------------------------------------------------
(* Bounds *)

NParam == 2

NBlended == 2

MaxParamFiles == 3

MaxExtremaFiles == 2

ParamValues == {18, 27, 40}

ExtremaValues == {144, 1000}

MeasuredBases == {94, 187}

FontKinds == {[unitsPerEm |-> 1000, base |-> 94], [unitsPerEm |-> 2048, base |-> 187]}

----------------------------------------------------------------------------
(* Class attributes *)

AllParametricAxes == <<"XOPQ", "XTRA", "YOPQ", "YTAS", "YTDE", "YTUC", "YTLC", "YTFI">>

AllBlendedAxes == <<"opsz", "wght", "wdth">>

parametricAxes == SubSeq(AllParametricAxes, 1, NParam)

blendedAxes == SubSeq(AllBlendedAxes, 1, NBlended)

Range(s) == {s[i] : i \in DOMAIN s}

axesDefaults == [n \in Range(AllBlendedAxes) |->
                    IF n = "opsz" THEN 14 ELSE IF n = "wght" THEN 400 ELSE 100]

axesNames == [n \in Range(AllBlendedAxes) |->
                 IF n = "opsz" THEN "Optical size"
                 ELSE IF n = "wght" THEN "Weight" ELSE "Width"]

parametricAxesHidden(cls) == cls = "C"

designspacePath(cls) ==
    IF cls = "Base" THEN "RobotoFlex.designspace"
    ELSE IF cls = "A" THEN "RobotoFlexA.designspace"
    ELSE IF cls = "B" THEN "RobotoFlexB.designspace"
    ELSE "RobotoFlexC.designspace"

defaultUFO == [tag |-> "wght", value |-> 400]

BuildStepsNoInstances(cls) ==
    IF cls = "A"
    THEN <<"addBlendedAxes", "addParametricAxes", "addMappings", "addSources">>
    ELSE <<"addParametricAxes", "addSources">>

BuildSteps(cls) ==
    IF cls = "A"
    THEN <<"addBlendedAxes", "addParametricAxes", "addMappings", "addSources">>
    ELSE <<"addParametricAxes", "addSources", "addInstances">>

Script == <<"Base", "A">>

----------------------------------------------------------------------------
(* Pure helpers *)

\* round(value * 1000 / unitsPerEm): Python 3 rounds a tie to the even integer
permille(value, upm) ==
    LET n == value * 1000
        q == n \div upm
        r == n % upm
    IN  IF 2 * r < upm THEN q
        ELSE IF 2 * r > upm THEN q + 1
        ELSE IF q % 2 = 0 THEN q ELSE q + 1

\* `name in ufo`: under the naming convention <prefix>_<TAG><value>.ufo the
\* axis name occurs in a path as its tag and nowhere else
Matches(name, ufo) == ufo.tag = name

\* int(stem.split('_')[-1][4:]): the integer after the four-letter tag
ParseValue(ufo) == ufo.value

FileValues(name, files) ==
    LET m == SelectSeq(files, LAMBDA f : Matches(name, f))
    IN  [i \in 1..Len(m) |-> ParseValue(m[i])]

Unsorted(values) == values

Sort(values) == SortSeq(values, LAMBDA a, b : a < b)

Put(d, k, v) == [x \in (DOMAIN d) \cup {k} |-> IF x = k THEN v ELSE d[x]]

RECURSIVE SetItems(_, _)
SetItems(d, kvs) ==
    IF kvs = <<>> THEN d
    ELSE SetItems(Put(d, Head(kvs)[1], Head(kvs)[2]), Tail(kvs))

EmptyDict == [x \in {} |-> 0]

NoError == [kind |-> "none", axis |-> "", method |-> ""]

EmptyDocument == [axes |-> <<>>, sources |-> <<>>, instances |-> <<>>,
                  axisMappings |-> <<>>]

cls == Script[cur]

IndexOf(name) == CHOOSE i \in DOMAIN AllParametricAxes : AllParametricAxes[i] = name

\* M.values after M.measure(f): one integer length in font units per parametric
\* axis, on which int() changes nothing
Measured(base) == [n \in Range(parametricAxes) |-> base + 7 * IndexOf(n)]

----------------------------------------------------------------------------
(* Locations *)

defaultLocation ==
    LET L == [name \in Range(parametricAxes) |->
                 permille(measurementsDefault[name], unitsPerEm)]
    IN  SetItems(L, <<<<"slnt", 0>>, <<"GRAD", 0>>, <<"XTSP", 0>>>>)

SharedDefaultLocation(h) ==
    IF h = <<>> THEN [heap |-> <<defaultLocation>>, ref |-> 1]
    ELSE [heap |-> h, ref |-> 1]

EmptyLocation(h) == [heap |-> Append(h, EmptyDict), ref |-> Len(h) + 1]

\* self.defaultLocation.copy(): the property builds a new dict on every read,
\* the copy is another new object; only the copy stays referenced
DefaultLocationCopy(h) == [heap |-> Append(h, defaultLocation), ref |-> Len(h) + 1]

NewLocation(h, kvs) ==
    LET a == DefaultLocationCopy(h)
    IN  [heap |-> [a.heap EXCEPT ![a.ref] = SetItems(@, kvs)], ref |-> a.ref]

----------------------------------------------------------------------------
(* Axes *)

FixedAxes ==
    << [name |-> "slnt", tag |-> "slnt", minimum |-> -10,  maximum |-> 0,
        default |-> 0, hidden |-> FALSE],
       [name |-> "GRAD", tag |-> "GRAD", minimum |-> -200, maximum |-> 150,
        default |-> 0, hidden |-> FALSE],
       [name |-> "XTSP", tag |-> "XTSP", minimum |-> -100, maximum |-> 100,
        default |-> 0, hidden |-> FALSE] >>

RECURSIVE ParametricAxesLoop(_, _)
ParametricAxesLoop(i, axes) ==
    IF i > Len(parametricAxes) THEN [axes |-> axes, error |-> NoError]
    ELSE
      LET name   == parametricAxes[i]
          values == FileValues(name, sourcesParametric)
      IN  IF Len(values) = 0
          THEN [axes |-> axes,
                error |-> [kind |-> "AssertionError", axis |-> name,
                           method |-> "addParametricAxes"]]
          ELSE
            LET sorted == Sort(values)
            IN  IF Len(sorted) < 2
                THEN [axes |-> axes,
                      error |-> [kind |-> "IndexError", axis |-> name,
                                 method |-> "addParametricAxes"]]
                ELSE ParametricAxesLoop(i + 1, Append(axes,
                        [name    |-> name,
                         tag     |-> name,
                         minimum |-> sorted[1],
                         maximum |-> sorted[2],
                         default |-> permille(measurementsDefault[name], unitsPerEm),
                         hidden  |-> parametricAxesHidden(cls)]))

RECURSIVE BlendedAxesLoop(_, _)
BlendedAxesLoop(i, axes) ==
    IF i > Len(blendedAxes) THEN [axes |-> axes, error |-> NoError]
    ELSE
      LET name   == blendedAxes[i]
          values == FileValues(name, sourcesExtrema)
      IN  IF Len(values) = 0
          THEN [axes |-> axes,
                error |-> [kind |-> "AssertionError", axis |-> name,
                           method |-> "addBlendedAxes"]]
          ELSE
            LET sorted == Sort(values)
            IN  IF Len(sorted) < 2
                THEN [axes |-> axes,
                      error |-> [kind |-> "IndexError", axis |-> name,
                                 method |-> "addBlendedAxes"]]
                ELSE BlendedAxesLoop(i + 1, Append(axes,
                        [name    |-> name,
                         tag     |-> axesNames[name],
                         minimum |-> sorted[1],
                         maximum |-> sorted[2],
                         default |-> axesDefaults[name],
                         hidden  |-> FALSE]))

----------------------------------------------------------------------------
(* Sources *)

SlantValue == -10

NarrowGradeValues == <<-50, 50>>

GradeValues == <<-200, 150>>

SpacingValues == <<-100, 100>>

\* the (axis name, file) pairs two nested loops visit: names outside, files inside
RECURSIVE MatchingPairs(_, _)
MatchingPairs(names, files) ==
    IF names = <<>> THEN <<>>
    ELSE LET m == SelectSeq(files, LAMBDA f : Matches(Head(names), f))
         IN  [i \in 1..Len(m) |-> [name |-> Head(names), ufo |-> m[i]]]
             \o MatchingPairs(Tail(names), files)

SourcePlan ==
    << [path |-> defaultUFO, kvs |-> <<>>],
       [path |-> [tag |-> "slnt", value |-> SlantValue],
        kvs  |-> << <<"slnt", SlantValue>> >>] >>
    \o [i \in 1..Len(GradeValues) |->
          [path |-> [tag |-> "GRAD", value |-> GradeValues[i]],
           kvs  |-> << <<"GRAD", GradeValues[i]>> >>]]
    \o [i \in 1..Len(SpacingValues) |->
          [path |-> [tag |-> "XTSP", value |-> SpacingValues[i]],
           kvs  |-> << <<"XTSP", SpacingValues[i]>> >>]]
    \o LET ps == MatchingPairs(parametricAxes, sourcesParametric)
       IN  [i \in 1..Len(ps) |->
              [path |-> ps[i].ufo,
               kvs  |-> << <<ps[i].name, ParseValue(ps[i].ufo)>> >>]]

RECURSIVE PlaceSources(_, _, _)
PlaceSources(plan, h, srcs) ==
    IF plan = <<>> THEN [heap |-> h, sources |-> srcs]
    ELSE LET L == NewLocation(h, Head(plan).kvs)
         IN  PlaceSources(Tail(plan), L.heap,
                 Append(srcs, [path       |-> Head(plan).path,
                               familyName |-> "Roboto Flex",
                               location   |-> L.ref]))

----------------------------------------------------------------------------
(* Instances *)

InstanceItems(blendedAxisName, f) ==
    << <<blendedAxisName, permille(ParseValue(f), f.unitsPerEm)>> >>
    \o [i \in 1..Len(parametricAxes) |->
          <<parametricAxes[i], permille(f.values[parametricAxes[i]], f.unitsPerEm)>>]

RECURSIVE PlaceInstances(_, _, _)
PlaceInstances(pairs, h, insts) ==
    IF pairs = <<>> THEN [heap |-> h, instances |-> insts]
    ELSE LET p == Head(pairs)
             L == NewLocation(h, InstanceItems(p.name, p.ufo))
         IN  PlaceInstances(Tail(pairs), L.heap,
                 Append(insts, [familyName     |-> "Roboto Flex",
                                designLocation |-> L.ref,
                                filename       |-> [tag   |-> p.ufo.tag,
                                                    value |-> p.ufo.value]]))

----------------------------------------------------------------------------
(* Mappings *)

RECURSIVE MappingLoop(_, _, _)
MappingLoop(name, files, m) ==
    IF files = <<>> THEN m
    ELSE LET ufo == Head(files)
         IN  IF Matches(name, ufo)
             THEN MappingLoop(name, Tail(files),
                     [inputLocation  |-> Put(EmptyDict, axesNames[name], ParseValue(ufo)),
                      outputLocation |-> [n \in Range(parametricAxes) |-> ufo.values[n]]])
             ELSE MappingLoop(name, Tail(files), m)

Mappings ==
    [i \in 1..Len(blendedAxes) |->
        MappingLoop(blendedAxes[i], sourcesExtrema,
                    [inputLocation |-> EmptyDict, outputLocation |-> EmptyDict])]

----------------------------------------------------------------------------
(* Inputs *)

MinOf(S) == CHOOSE x \in S : \A y \in S : x <= y

MaxOf(S) == CHOOSE x \in S : \A y \in S : x >= y

ParamFiles == [tag : Range(parametricAxes), value : ParamValues]
              \cup {[tag |-> "slnt", value |-> SlantValue]}

ExtremaFiles == {[tag |-> t, value |-> v, unitsPerEm |-> d.unitsPerEm,
                  values |-> Measured(d.base)] :
                 t \in Range(blendedAxes), v \in ExtremaValues, d \in FontKinds}

SameName(f, g) == f.tag = g.tag /\ f.value = g.value

Listings(files, maxLen) ==
    {s \in UNION {[1..n -> files] : n \in 0..maxLen} :
        \A i, j \in DOMAIN s : i # j => ~SameName(s[i], s[j])}

Reverse(s) == [i \in DOMAIN s |-> s[Len(s) + 1 - i]]

ReferenceSources ==
    [i \in 1..(2 * NParam) |->
        [tag   |-> parametricAxes[(i + 1) \div 2],
         value |-> IF i % 2 = 1 THEN MinOf(ParamValues) ELSE MaxOf(ParamValues)]]

ReferenceExtrema ==
    [i \in 1..(2 * NBlended) |->
        [tag        |-> blendedAxes[(i + 1) \div 2],
         value      |-> IF i % 2 = 1 THEN MinOf(ExtremaValues) ELSE MaxOf(ExtremaValues),
         unitsPerEm |-> 2048,
         values     |-> Measured(IF i % 2 = 1 THEN MinOf(MeasuredBases)
                                 ELSE MaxOf(MeasuredBases))]]

----------------------------------------------------------------------------
(* The script *)

Init ==
    /\ \/ /\ folderSources \in Listings(ParamFiles, MaxParamFiles)
          /\ folderExtrema \in {ReferenceExtrema, Reverse(ReferenceExtrema)}
       \/ /\ folderSources \in {ReferenceSources, Reverse(ReferenceSources)}
          /\ folderExtrema \in Listings(ExtremaFiles, MaxExtremaFiles)
       \/ /\ folderSources \in {ReferenceSources, Reverse(ReferenceSources)}
          /\ folderExtrema \in {ReferenceExtrema, Reverse(ReferenceExtrema)}
    /\ defaultFont \in {[unitsPerEm |-> d.unitsPerEm, values |-> Measured(d.base)] :
                           d \in FontKinds}
    /\ cur = 1
    /\ pc = "construct"
    /\ step = 0
    /\ sourcesParametric = <<>>
    /\ sourcesExtrema = <<>>
    /\ unitsPerEm = 0
    /\ measurementsDefault = EmptyDict
    /\ designspace = EmptyDocument
    /\ heap = <<>>
    /\ written = {}
    /\ error = NoError

inputs == <<folderSources, folderExtrema, defaultFont>>

fields == <<sourcesParametric, sourcesExtrema, unitsPerEm, measurementsDefault>>

Construct ==
    /\ pc = "construct"
    /\ sourcesParametric' = folderSources
    /\ sourcesExtrema' = folderExtrema
    /\ unitsPerEm' = defaultFont.unitsPerEm
    /\ measurementsDefault' = defaultFont.values
    /\ pc' = "build"
    /\ step' = 0
    /\ UNCHANGED <<inputs, cur, designspace, heap, written, error>>

BuildBegin ==
    /\ pc = "build"
    /\ step = 0
    /\ designspace' = EmptyDocument
    /\ step' = 1
    /\ UNCHANGED <<inputs, fields, cur, pc, heap, written, error>>

AtStep(method) ==
    /\ pc = "build"
    /\ step \in DOMAIN BuildSteps(cls)
    /\ BuildSteps(cls)[step] = method

Return(err) ==
    IF err.kind # "none"
    THEN pc' = "aborted" /\ step' = step /\ error' = err
    ELSE /\ error' = error
         /\ IF step < Len(BuildSteps(cls))
            THEN pc' = pc /\ step' = step + 1
            ELSE pc' = "save" /\ step' = step

AddParametricAxes ==
    /\ AtStep("addParametricAxes")
    /\ LET r == ParametricAxesLoop(1, designspace.axes \o FixedAxes)
       IN  /\ designspace' = [designspace EXCEPT !.axes = r.axes]
           /\ Return(r.error)
    /\ UNCHANGED <<inputs, fields, cur, heap, written>>

AddBlendedAxes ==
    /\ AtStep("addBlendedAxes")
    /\ LET r == BlendedAxesLoop(1, designspace.axes)
       IN  /\ designspace' = [designspace EXCEPT !.axes = r.axes]
           /\ Return(r.error)
    /\ UNCHANGED <<inputs, fields, cur, heap, written>>

AddSources ==
    /\ AtStep("addSources")
    /\ LET r == PlaceSources(SourcePlan, heap, designspace.sources)
       IN  /\ designspace' = [designspace EXCEPT !.sources = r.sources]
           /\ heap' = r.heap
    /\ Return(NoError)
    /\ UNCHANGED <<inputs, fields, cur, written>>

AddInstances ==
    /\ AtStep("addInstances")
    /\ LET r == PlaceInstances(MatchingPairs(blendedAxes, sourcesExtrema),
                               heap, designspace.instances)
       IN  /\ designspace' = [designspace EXCEPT !.instances = r.instances]
           /\ heap' = r.heap
    /\ Return(NoError)
    /\ UNCHANGED <<inputs, fields, cur, written>>

AddMappings ==
    /\ AtStep("addMappings")
    /\ designspace' = [designspace EXCEPT !.axisMappings = @ \o Mappings]
    /\ Return(NoError)
    /\ UNCHANGED <<inputs, fields, cur, heap, written>>

Save ==
    /\ pc = "save"
    /\ written' = written \cup {designspacePath(cls)}
    /\ IF cur < Len(Script)
       THEN cur' = cur + 1 /\ pc' = "construct"
       ELSE cur' = cur /\ pc' = "done"
    /\ step' = 0
    /\ UNCHANGED <<inputs, fields, designspace, heap, error>>

Next ==
    \/ Construct
    \/ BuildBegin
    \/ AddBlendedAxes
    \/ AddParametricAxes
    \/ AddMappings
    \/ AddSources
    \/ AddInstances
    \/ Save

Spec == Init /\ [][Next]_vars

----------------------------------------------------------------------------
(* Properties *)

AxisNames == {designspace.axes[i].name : i \in DOMAIN designspace.axes}

IsDerived(name) == name \in Range(parametricAxes) \cup Range(blendedAxes)

ListingOf(name) ==
    IF name \in Range(blendedAxes) THEN sourcesExtrema ELSE sourcesParametric

ExtremaPairs == MatchingPairs(blendedAxes, sourcesExtrema)

BuildReturned == pc = "save"

\* C1: every derived axis spans the smallest to the largest of all the values
\* parsed from its matching file names, and no name that has matching files
\* is left without an axis by an exception.
C1_BoundsAreMinAndMaxOfAllValues ==
    /\ \A i \in DOMAIN designspace.axes :
          LET a == designspace.axes[i]
              V == Range(FileValues(a.name, ListingOf(a.name)))
          IN  (IsDerived(a.name) /\ V # {})
                 => (a.minimum = MinOf(V) /\ a.maximum = MaxOf(V))
    /\ pc = "aborted" => FileValues(error.axis, ListingOf(error.axis)) = <<>>

Expected(c) ==
    [n \in Range(parametricAxes) |-> folderSources]
    @@ (IF c = "A" THEN [n \in Range(blendedAxes) |-> folderExtrema] ELSE EmptyDict)

Missing(c) == {n \in DOMAIN Expected(c) : FileValues(n, Expected(c)[n]) = <<>>}

\* C2: when an expected axis name has no matching file, the run ends in an
\* assertion failure at such a name, no axis of that name is in the document,
\* and neither this builder nor a later one has written its designspace.
C2_MissingAxisFailsFast ==
    (pc \in {"done", "aborted"} /\ \E k \in DOMAIN Script : Missing(Script[k]) # {})
       => /\ pc = "aborted"
          /\ error.kind = "AssertionError"
          /\ error.axis \in Missing(cls)
          /\ error.axis \notin AxisNames
          /\ \A j \in cur..Len(Script) : designspacePath(Script[j]) \notin written

\* the same, were a single matching file not to end the run on its own
C2_UpToIndexError ==
    (pc \in {"done", "aborted"} /\ \E k \in DOMAIN Script : Missing(Script[k]) # {})
       => /\ pc = "aborted"
          /\ \/ error.kind = "IndexError"
             \/ /\ error.kind = "AssertionError"
                /\ error.axis \in Missing(cls)
          /\ error.axis \notin AxisNames
          /\ \A j \in cur..Len(Script) : designspacePath(Script[j]) \notin written

SourceValues(tag) ==
    {heap[designspace.sources[i].location][tag] :
        i \in {j \in DOMAIN designspace.sources : designspace.sources[j].path.tag = tag}}

\* C3: every source sits at the default location on all axes but at most one:
\* the nominal source on all of them, the slant, grade and spacing sources off
\* it only on slnt (-10), GRAD (-200, 150) and XTSP (-100, 100), a parametric
\* source only on its own axis, at the value of its file name.
C3_SourcesDifferOnOneAxis ==
    /\ \A i \in DOMAIN designspace.sources :
          LET s    == designspace.sources[i]
              L    == heap[s.location]
              D    == defaultLocation
              diff == {k \in DOMAIN D : L[k] # D[k]}
              t    == s.path.tag
          IN  /\ DOMAIN L = DOMAIN D
              /\ Cardinality(diff) <= 1
              /\ s.path = defaultUFO => diff = {}
              /\ s.path # defaultUFO => diff \subseteq {t}
              /\ t = "slnt" => L[t] = -10
              /\ t = "GRAD" => L[t] \in {-200, 150}
              /\ t = "XTSP" => L[t] \in {-100, 100}
              /\ t \in Range(parametricAxes) => L[t] = s.path.value
    /\ designspace.sources # <<>> =>
          /\ designspace.sources[1].path = defaultUFO
          /\ SourceValues("slnt") = {-10}
          /\ SourceValues("GRAD") = {-200, 150}
          /\ SourceValues("XTSP") = {-100, 100}
          /\ Len(designspace.sources) = 6 + Len(MatchingPairs(parametricAxes, sourcesParametric))

C3_Witness ==
    /\ Len(designspace.sources) >= 8
    /\ \E i \in DOMAIN designspace.sources :
          LET s == designspace.sources[i]
          IN  /\ s.path.tag \in Range(parametricAxes)
              /\ heap[s.location][s.path.tag] # defaultLocation[s.path.tag]

ExpectedMappings ==
    [i \in 1..Len(ExtremaPairs) |->
        [inputLocation  |-> Put(EmptyDict, ExtremaPairs[i].name, ExtremaPairs[i].ufo.value),
         outputLocation |-> [n \in Range(parametricAxes) |-> ExtremaPairs[i].ufo.values[n]]]]

\* C4: after build() of variant A the document holds one mapping per
\* (blended axis, matching extremum file), from the blended axis name at the
\* file's value to the measured value of every parametric axis.
C4_OneMappingPerExtremum ==
    (BuildReturned /\ cls = "A") => designspace.axisMappings = ExpectedMappings

InstanceFiles == [i \in DOMAIN designspace.instances |-> designspace.instances[i].filename]

PairFiles == [i \in DOMAIN ExtremaPairs |->
                 [tag |-> ExtremaPairs[i].ufo.tag, value |-> ExtremaPairs[i].ufo.value]]

\* C5 as stated: build() of variant A adds one instance per (blended axis,
\* matching extremum file) and build() of the other builders adds none.
C5_InstancesInVariantAOnly ==
    BuildReturned =>
        IF cls = "A" THEN InstanceFiles = PairFiles ELSE designspace.instances = <<>>

\* C5 amended: build() of the base builder adds one instance per (blended
\* axis, matching extremum file) and build() of variant A adds none.
C5_InstancesInBaseOnly ==
    /\ BuildReturned =>
          IF cls = "A" THEN designspace.instances = <<>> ELSE InstanceFiles = PairFiles
    /\ (cls = "A" /\ pc = "build" /\ step >= 1) => designspace.instances = <<>>

C5_Witness ==
    /\ BuildReturned
    /\ cls = "Base"
    /\ Len(designspace.instances) >= 2
    /\ written = {}

\* C6: the location of every source and of every instance has every key of
\* the default location, and a key that is not overridden (for a source all
\* but its own axis, for an instance slnt, GRAD and XTSP) has the default value.
C6_LocationsKeepDefaultKeys ==
    /\ \A i \in DOMAIN designspace.sources :
          LET s == designspace.sources[i]
              L == heap[s.location]
          IN  /\ DOMAIN defaultLocation \subseteq DOMAIN L
              /\ \A k \in DOMAIN defaultLocation \ {s.path.tag} : L[k] = defaultLocation[k]
    /\ \A i \in DOMAIN designspace.instances :
          LET I == designspace.instances[i]
              L == heap[I.designLocation]
          IN  /\ DOMAIN defaultLocation \subseteq DOMAIN L
              /\ \A k \in DOMAIN defaultLocation \ Range(parametricAxes) :
                    L[k] = defaultLocation[k]

C6_Witness ==
    /\ designspace.instances # <<>>
    /\ Len(designspace.sources) > 6
    /\ \E i \in DOMAIN designspace.instances :
          LET L == heap[designspace.instances[i].designLocation]
          IN  \E k \in Range(parametricAxes) : L[k] # defaultLocation[k]

\* C7: an axis whose listing holds exactly two matching files, of values
\* V1 < V2, has minimum V1 and maximum V2, in whichever order the listing
\* returns the two files.
C7_TwoFilesAnyOrder ==
    \A i \in DOMAIN designspace.axes :
        LET a == designspace.axes[i]
            v == FileValues(a.name, ListingOf(a.name))
        IN  (IsDerived(a.name) /\ Len(v) = 2 /\ v[1] # v[2])
               => /\ a.minimum = MinOf({v[1], v[2]})
                  /\ a.maximum = MaxOf({v[1], v[2]})

C7_Witness ==
    /\ cls = "A"
    /\ BuildReturned
    /\ \E i \in DOMAIN designspace.axes :
          LET a == designspace.axes[i]
              v == FileValues(a.name, ListingOf(a.name))
          IN  /\ a.name = "wght"
              /\ Len(v) = 2
              /\ v[1] > v[2]
              /\ a.minimum = v[2]

ExtremumOf(filename) ==
    CHOOSE f \in Range(sourcesExtrema) : SameName(f, filename)

\* C8: the location of the instance built from an extremum file of blended
\* axis B has B at the value of the file name, and every parametric axis at
\* the file's measured value in permille of the file's units per em.
C8_InstanceHoldsBlendedValue ==
    \A i \in DOMAIN designspace.instances :
        LET I == designspace.instances[i]
            L == heap[I.designLocation]
            f == ExtremumOf(I.filename)
        IN  /\ L[f.tag] = f.value
            /\ \A n \in Range(parametricAxes) :
                  L[n] = permille(f.values[n], f.unitsPerEm)

Refs ==
    [i \in DOMAIN designspace.sources |-> designspace.sources[i].location]
    \o [i \in DOMAIN designspace.instances |-> designspace.instances[i].designLocation]

NoSharedLocation == \A i, j \in DOMAIN Refs : i # j => Refs[i] # Refs[j]

NominalAtDefault ==
    designspace.sources # <<>> => heap[designspace.sources[1].location] = defaultLocation

\* C9: no step changes the default location or a location dict that exists
\* already; no two descriptors hold the same dict, and the nominal source,
\* which holds an unmodified copy, stays at the default location.
C9_LocationsAreNeverShared ==
    [][ /\ \A r \in DOMAIN heap : r \in DOMAIN heap' /\ heap'[r] = heap[r]
        /\ pc = "build" => (defaultLocation)' = defaultLocation
        /\ NoSharedLocation'
        /\ NominalAtDefault' ]_vars

C9_Witness ==
    /\ cls = "Base"
    /\ BuildReturned
    /\ designspace.instances # <<>>
    /\ Len(heap) = Len(designspace.sources) + Len(designspace.instances)
    /\ \E r \in DOMAIN heap : heap[r] # defaultLocation

\* C10: every key of a mapping's input or output location is the name of an
\* axis of the document.
C10_MappingKeysAreAxisNames ==
    \A i \in DOMAIN designspace.axisMappings :
        LET m == designspace.axisMappings[i]
        IN  /\ DOMAIN m.inputLocation \subseteq AxisNames
            /\ DOMAIN m.outputLocation \subseteq AxisNames

====
